---- MODULE Spec2Model ----
(***************************************************************************)
(* Verification model of the numeric library: the dense Matrix with its    *)
(* row views, the RREF reducer (with and without a zero threshold) and the *)
(* Gauss-Jordan solvers built on it.                                       *)
(*                                                                         *)
(* The scalar type T of the templates is instantiated with an exact field: *)
(* a scalar is a pair <<n, d>> in lowest terms with d > 0, so that the     *)
(* operator== of T is equality of pairs.  Row and column indices are       *)
(* 0-based as in the source.                                               *)
(***************************************************************************)
EXTENDS Integers, Sequences, FiniteSets, TLC

\* ------------------------------------------------------------------ bounds
MaxRows == 3
MaxCols == 3
MaxCells == 9
SmallCells == 6

\* The integers a grid handed to the Matrix constructor is filled with: a
\* grid of at most SmallCells elements draws them from WideEntries, a larger
\* one from Entries.
Entries == {0, 1}
WideEntries == {-1, 0, 1}

\* ----------------------------------------------------------- the scalar T
Abs(x) == IF x < 0 THEN -x ELSE x

RECURSIVE gcd(_, _)
gcd(a, b) == IF b = 0 THEN a ELSE gcd(b, a % b)

\* The exact scalar n/d (d # 0) in lowest terms with a positive denominator.
Rat(n, d) ==
    LET s == IF d < 0 THEN -1 ELSE 1
        g == gcd(Abs(n), Abs(d))
    IN  <<(s * n) \div g, (s * d) \div g>>

\* static_cast<T>(k)
Cast(k) == <<k, 1>>

Zero == Cast(0)
One == Cast(1)

Add(x, y) == Rat(x[1] * y[2] + y[1] * x[2], x[2] * y[2])
Mul(x, y) == Rat(x[1] * y[1], x[2] * y[2])
Neg(x) == <<-x[1], x[2]>>
\* x / y, only evaluated with y # Zero
Div(x, y) == Rat(x[1] * y[2], x[2] * y[1])
\* static_cast<double>(x) < static_cast<double>(y)
Less(x, y) == x[1] * y[2] < y[1] * x[2]
\* static_cast<std::size_t>(x): truncation of a non-negative scalar
ToIndex(x) == x[1] \div x[2]

\* ------------------------------------------------------------- the Matrix
\* A Matrix is [nrows, ncols, rows, storage]: storage is the row-major buffer
\* (indices 0 .. nrows*ncols-1) and rows[r] is the offset in storage at which
\* the view of row r starts (Slice::start); every view has size ncols.

initializeSlices(nr, nc) == [r \in 0 .. nr - 1 |-> r * nc]

\* What a call that throws yields in place of its value: the exception.
invalid_argument == [raised |-> "invalid_argument"]
out_of_range == [raised |-> "out_of_range"]
Raised(x) == "raised" \in DOMAIN x

\* Matrix(vecs) without the test of the length of the first row.
MatrixOfAnyWidth(vecs) ==
    IF Len(vecs) = 0 THEN invalid_argument
    ELSE IF \E r \in 1 .. Len(vecs) : Len(vecs[r]) # Len(vecs[1])
         THEN invalid_argument
    ELSE [nrows |-> Len(vecs),
          ncols |-> Len(vecs[1]),
          rows |-> initializeSlices(Len(vecs), Len(vecs[1])),
          storage |-> [k \in 0 .. Len(vecs) * Len(vecs[1]) - 1 |->
                          vecs[(k \div Len(vecs[1])) + 1][(k % Len(vecs[1])) + 1]]]

\* Matrix(const std::vector<std::vector<T>>&): vecs is a sequence of
\* sequences of scalars.
Matrix(vecs) ==
    IF Len(vecs) = 0 THEN invalid_argument
    ELSE IF Len(vecs[1]) = 0 THEN invalid_argument
    ELSE IF \E r \in 1 .. Len(vecs) : Len(vecs[r]) # Len(vecs[1])
         THEN invalid_argument
    ELSE LET nr == Len(vecs)
             nc == Len(vecs[1])
         IN  [nrows |-> nr,
              ncols |-> nc,
              rows |-> initializeSlices(nr, nc),
              storage |-> [k \in 0 .. nr * nc - 1 |->
                              vecs[(k \div nc) + 1][(k % nc) + 1]]]

\* matrix[r][c] for r < nrows and c < ncols
At(m, r, c) == m.storage[m.rows[r] + c]

\* The elements of a matrix as seen through its row views.
View(m) == [r \in 0 .. m.nrows - 1 |-> [c \in 0 .. m.ncols - 1 |-> At(m, r, c)]]

\* The storage offsets the view of row r covers.
Block(m, r) == m.rows[r] .. m.rows[r] + m.ncols - 1

\* linearCombRows that also leaves b * row r2 in row r2.
linearCombRowsScalingBoth(m, r1, a, r2, b) ==
    IF r1 > m.nrows \/ r2 > m.nrows THEN out_of_range
    ELSE [m EXCEPT !.storage =
            [k \in DOMAIN m.storage |->
                IF k \in Block(m, r1)
                THEN Add(Mul(a, m.storage[k]),
                         Mul(b, m.storage[m.rows[r2] + (k - m.rows[r1])]))
                ELSE IF k \in Block(m, r2) THEN Mul(b, m.storage[k])
                ELSE m.storage[k]]]

\* Matrix::linearCombRows for r1, r2 < nrows: row r1 <- a*row r1 + b*row r2,
\* element by element in place.
linearCombRows(m, r1, a, r2, b) ==
    IF r1 > m.nrows \/ r2 > m.nrows THEN out_of_range
    ELSE [m EXCEPT !.storage =
            [k \in DOMAIN m.storage |->
                IF k \in Block(m, r1)
                THEN Add(Mul(a, m.storage[k]),
                         Mul(b, m.storage[m.rows[r2] + (k - m.rows[r1])]))
                ELSE m.storage[k]]]

\* exchangeRows copying the start of r2 to r1 and leaving r2 as it is.
exchangeRowsOneWay(m, r1, r2) ==
    IF r1 > m.nrows \/ r2 > m.nrows THEN out_of_range
    ELSE [m EXCEPT !.rows = [m.rows EXCEPT ![r1] = m.rows[r2]]]

\* Matrix::exchangeRows for r1, r2 < nrows: the two views swap their starts.
exchangeRows(m, r1, r2) ==
    IF r1 > m.nrows \/ r2 > m.nrows THEN out_of_range
    ELSE [m EXCEPT !.rows = [m.rows EXCEPT ![r1] = m.rows[r2], ![r2] = m.rows[r1]]]

\* scaleRow addressing the row by its index, not through its view.
scaleRowByIndex(m, row, factor) ==
    [m EXCEPT !.storage =
        [k \in DOMAIN m.storage |->
            IF k \in row * m.ncols .. row * m.ncols + m.ncols - 1
            THEN Mul(m.storage[k], factor)
            ELSE m.storage[k]]]

\* Matrix::scaleRow for row < nrows.
scaleRow(m, row, factor) ==
    IF row > m.nrows THEN out_of_range
    ELSE [m EXCEPT !.storage =
            [k \in DOMAIN m.storage |->
                IF k \in Block(m, row) THEN Mul(m.storage[k], factor)
                ELSE m.storage[k]]]

\* matrix[r][c] = v
SetAt(m, r, c, v) == [m EXCEPT !.storage[m.rows[r] + c] = v]

\* Matrix(nrows, ncols): std::make_unique<T[]> value-initializes the elements
\* (zero for an arithmetic T); neither dimension is looked at.
MatrixOfDimensions(nrows, ncols) ==
    [nrows |-> nrows,
     ncols |-> ncols,
     rows |-> initializeSlices(nrows, ncols),
     storage |-> [k \in 0 .. nrows * ncols - 1 |-> Cast(0)]]

\* Matrix::identity(sz): retval[i][i] = static_cast<T>(1) for i < sz
identity(sz) ==
    LET retval == MatrixOfDimensions(sz, sz)
    IN  [retval EXCEPT !.storage =
            [k \in DOMAIN retval.storage |->
                IF k \div sz = k % sz THEN Cast(1) ELSE retval.storage[k]]]

\* Matrix::zero(rows, cols): every element of every row is set to 0
zero(rows, cols) ==
    LET retval == MatrixOfDimensions(rows, cols)
    IN  [retval EXCEPT !.storage = [k \in DOMAIN retval.storage |-> Cast(0)]]

\* rows holds nrows Slices, so rows[nrows] is read from the memory after the
\* array.  Wild is a start that does not point into the storage of the matrix;
\* PastTheEnd(m) is what that memory can hold, read as a Slice.
Wild == -1
PastTheEnd(m) ==
    [start : {Wild} \cup {m.rows[r] : r \in 0 .. m.nrows - 1}, size : {0, m.ncols}]

\* m with rows[nrows] being the Slice g, and back to the nrows Slices it owns.
WithPastTheEnd(m, g) ==
    [m EXCEPT !.rows =
        [r \in 0 .. m.nrows |-> IF r < m.nrows THEN m.rows[r] ELSE g.start]]
Owned(m) == [m EXCEPT !.rows = [r \in 0 .. m.nrows - 1 |-> m.rows[r]]]

\* A call of a row operation gives [signal, matrix]: signal is "OK" when the
\* call returns, the name of the exception it throws, or "undefined" when it
\* writes outside the storage; matrix is what the call leaves.
Outcome(x, m) ==
    IF Raised(x) THEN [signal |-> x.raised, matrix |-> m]
    ELSE [signal |-> "OK", matrix |-> Owned(x)]

\* matrix.exchangeRows(r1, r2) for any r1, r2: the starts are swapped without
\* being dereferenced.
exchangeRowsCall(m, r1, r2, g) ==
    Outcome(exchangeRows(WithPastTheEnd(m, g), r1, r2), m)

\* matrix.scaleRow(row, factor) for any row: the range-for goes over
\* rows[row].start .. start + size.
scaleRowCall(m, row, factor, g) ==
    IF row = m.nrows /\ g.size = 0 THEN [signal |-> "OK", matrix |-> m]
    ELSE IF row = m.nrows /\ g.start = Wild THEN [signal |-> "undefined", matrix |-> m]
    ELSE Outcome(scaleRow(WithPastTheEnd(m, g), row, factor), m)

\* matrix.linearCombRows(r1, a, r2, b) for any r1, r2: rows[r][i] goes through
\* Slice::operator[], which throws when i >= size.
linearCombRowsCall(m, r1, a, r2, b, g) ==
    LET past == r1 <= m.nrows /\ r2 <= m.nrows /\ m.nrows \in {r1, r2}
    IN  IF past /\ m.ncols = 0 THEN [signal |-> "OK", matrix |-> m]
        ELSE IF past /\ g.size = 0 THEN [signal |-> "out_of_range", matrix |-> m]
        ELSE IF past /\ g.start = Wild THEN [signal |-> "undefined", matrix |-> m]
        ELSE Outcome(linearCombRows(WithPastTheEnd(m, g), r1, a, r2, b), m)

\* ------------------------------------------------------- the RREF reducer
\* std::optional<std::size_t>: the empty sequence is std::nullopt, <<r>> holds r.
nullopt == <<>>

\* findNextPivot with the scan starting one row too low.
findNextPivotSkippingOne(m, startRow, startCol) ==
    LET below == {r \in startRow + 2 .. m.nrows - 1 : At(m, r, startCol) # Cast(0)}
    IN  IF below = {} THEN <<>>
        ELSE <<CHOOSE r \in below : \A q \in below : r <= q>>

\* findNextPivot: the first row below startRow with a nonzero in startCol.
findNextPivot(m, startRow, startCol) ==
    LET below == {r \in startRow + 1 .. m.nrows - 1 : At(m, r, startCol) # Cast(0)}
    IN  IF below = {} THEN nullopt
        ELSE <<CHOOSE r \in below : \A q \in below : r <= q>>

\* roundOffToZero
roundOffToZero(val, zeroPrecision) ==
    IF Less(Neg(zeroPrecision), val) /\ Less(val, zeroPrecision)
    THEN Cast(0)
    ELSE val

\* for (auto& elem : matrix[row]) elem = roundOffToZero(elem, zeroPrecision)
roundOffRow(m, row, zeroPrecision) ==
    [m EXCEPT !.storage =
        [k \in DOMAIN m.storage |->
            IF k \in Block(m, row) THEN roundOffToZero(m.storage[k], zeroPrecision)
            ELSE m.storage[k]]]

\* falseIndentityRow: row is the view of one row, a function on 0 .. size-1.
falseIndentityRow(row, size) ==
    IF row[size - 1] = Cast(0) THEN FALSE
    ELSE \A c \in 0 .. size - 2 : ~(row[c] # Cast(0))

smallerDim(m) == IF m.nrows < m.ncols THEN m.nrows ELSE m.ncols

\* operateOnRows eliminating only in the rows below the pivot.
RECURSIVE operateOnRowsBelow(_, _, _)
operateOnRowsBelow(m, i, other_rows) ==
    IF ~(other_rows < m.nrows) THEN m
    ELSE IF At(m, other_rows, i) = Cast(0) \/ other_rows <= i
         THEN operateOnRowsBelow(m, i, other_rows + 1)
    ELSE LET div == Neg(Div(At(m, other_rows, i), At(m, i, i)))
             combined == linearCombRows(m, other_rows, Cast(1), i, div)
         IN  operateOnRowsBelow(SetAt(combined, other_rows, i, Cast(0)), i,
                                other_rows + 1)

\* operateOnRows clearing the element in the pivot column without combining
\* the rows.
RECURSIVE operateOnRowsClearing(_, _, _)
operateOnRowsClearing(m, i, other_rows) ==
    IF ~(other_rows < m.nrows) THEN m
    ELSE IF At(m, other_rows, i) = Cast(0) \/ other_rows = i
         THEN operateOnRowsClearing(m, i, other_rows + 1)
    ELSE operateOnRowsClearing(SetAt(m, other_rows, i, Cast(0)), i, other_rows + 1)

\* rref, the loop over the other rows of pivot i, from row other_rows on.
RECURSIVE operateOnRows(_, _, _)
operateOnRows(m, i, other_rows) ==
    IF ~(other_rows < m.nrows) THEN m
    ELSE IF At(m, other_rows, i) = Cast(0) \/ other_rows = i
         THEN operateOnRows(m, i, other_rows + 1)
    ELSE LET div == Neg(Div(At(m, other_rows, i), At(m, i, i)))
             combined == linearCombRows(m, other_rows, Cast(1), i, div)
         IN  operateOnRows(SetAt(combined, other_rows, i, Cast(0)), i, other_rows + 1)

\* rref(matrix, zeroPrecision), the loop over the other rows of pivot i.
RECURSIVE operateOnRowsZp(_, _, _, _)
operateOnRowsZp(m, i, otherRow, zeroPrecision) ==
    IF ~(otherRow < m.nrows) THEN m
    ELSE IF At(m, otherRow, i) = Cast(0) \/ otherRow = i
         THEN operateOnRowsZp(m, i, otherRow + 1, zeroPrecision)
    ELSE LET div == Neg(Div(At(m, otherRow, i), At(m, i, i)))
             combined == linearCombRows(m, otherRow, Cast(1), i, div)
         IN  operateOnRowsZp(roundOffRow(combined, otherRow, zeroPrecision),
                             i, otherRow + 1, zeroPrecision)

\* The pivot of iteration i is secured: is it nonzero, or is there a row
\* below to exchange with?  The index found goes through std::optional<T>
\* and back to std::size_t.
securePivot(m, i) ==
    IF At(m, i, i) = Cast(0)
    THEN LET nextPivot == findNextPivot(m, i, i)
         IN  IF nextPivot = nullopt
             THEN [free |-> TRUE, matrix |-> m]
             ELSE [free |-> FALSE,
                   matrix |-> exchangeRows(m, i, ToIndex(Cast(nextPivot[1])))]
    ELSE [free |-> FALSE, matrix |-> m]

\* rrefIteration normalizing with the pivot instead of its inverse.
rrefIterationScalingByPivot(m, i) ==
    LET p == securePivot(m, i)
    IN  IF p.free THEN p
        ELSE LET e == operateOnRows(p.matrix, i, 0)
             IN  [free |-> FALSE, matrix |-> scaleRow(e, i, At(e, i, i))]

\* One iteration of the loop of rref: [free, matrix] after pivot index i.
rrefIteration(m, i) ==
    LET p == securePivot(m, i)
    IN  IF p.free THEN p
        ELSE LET e == operateOnRows(p.matrix, i, 0)
             IN  [free |-> FALSE,
                  matrix |-> scaleRow(e, i, Div(Cast(1), At(e, i, i)))]

\* One iteration of the loop of rref(matrix, zeroPrecision).
rrefZpIteration(m, i, zeroPrecision) ==
    LET p == securePivot(m, i)
    IN  IF p.free THEN p
        ELSE LET e == operateOnRowsZp(p.matrix, i, 0, zeroPrecision)
                 n == scaleRow(e, i, Div(Cast(1), At(e, i, i)))
             IN  [free |-> FALSE, matrix |-> roundOffRow(n, i, zeroPrecision)]

\* The Result rref returns.
rrefResult(freeElements) == IF freeElements THEN "FREE_COLUMNS_RREF" ELSE "OK"

\* The whole loop of rref(matrix) from pivot index k on: [free, matrix] at its end.
RECURSIVE rrefLoop(_, _, _)
rrefLoop(m, k, free) ==
    IF ~(k < smallerDim(m)) THEN [free |-> free, matrix |-> m]
    ELSE LET it == rrefIteration(m, k)
         IN  rrefLoop(it.matrix, k + 1, free \/ it.free)

\* -------------------------------------------------- the Gauss-Jordan solvers
\* underRepresented with the bound off by one.
underRepresentedOffByOne(m) == m.nrows < m.ncols - 2

\* Step 0 of every solver: matrix.getRows() < matrix.getCols() - 1
underRepresented(m) == m.nrows < m.ncols - 1

\* Some row of the matrix, scanned from the last row upward, is a false identity.
hasFalseIdentityRow(m) ==
    \E rowNum \in 0 .. m.nrows - 1 :
        falseIndentityRow(View(m)[m.nrows - rowNum - 1], m.ncols)

\* Sigabrt::Numeric::gaussJordan (both overloads) after rref returned retval.
gaussJordan(retval, m) ==
    IF retval # "OK"
    THEN IF retval = "FREE_COLUMNS_RREF"
         THEN IF hasFalseIdentityRow(m) THEN "NO_SOLUTIONS" ELSE "INFINITE_SOLUTIONS"
         ELSE "UNKNOWN_ERROR"
    ELSE retval

\* What retval.error() gives when retval holds a success: the Result type is
\* not part of this library, so the call either raises or yields some code.
ErrorOfSuccess ==
    {"raises", "UNKNOWN_ERROR", "UNDERDETERMINED_SYSTEM", "FREE_COLUMNS_RREF",
     "INFINITE_SOLUTIONS", "NO_SOLUTIONS", "INCOMPATIBLE_VECTORS"}

\* numeric::functions::gauss_jordan(matrix) after rref returned retval: the
\* branch is taken when retval is a success; err is what error() then gives.
gauss_jordan(retval, m, err) ==
    IF retval = "OK"
    THEN IF err = "raises" THEN "raises"
         ELSE IF err = "FREE_COLUMNS_RREF"
         THEN IF hasFalseIdentityRow(m) THEN "NO_SOLUTIONS" ELSE "INFINITE_SOLUTIONS"
         ELSE "UNKNOWN_ERROR"
    ELSE retval

\* numeric::functions::gauss_jordan(matrix, zero_precision) after rref returned.
gauss_jordan_zp(retval, m) ==
    IF ~(retval = "OK")
    THEN IF retval = "FREE_COLUMNS_RREF"
         THEN IF hasFalseIdentityRow(m) THEN "NO_SOLUTIONS" ELSE "INFINITE_SOLUTIONS"
         ELSE "UNKNOWN_ERROR"
    ELSE retval

\* ------------------------------------------------------------ the machine
\* The zero thresholds a caller passes.
Thresholds == {<<1, 100>>, <<3, 4>>}

VARIABLES
    input,          \* the grid the caller built the matrix from
    matrix,         \* the caller's Matrix, reduced in place
    op,             \* the function the caller has called
    zeroPrecision,  \* its threshold argument
    pc,             \* "ready", "rref" (inside the loop of rref) or "returned"
    i,              \* the pivot index of the loop of rref
    freeElements,   \* the flag of rref
    result,         \* what the call returned
    processed,      \* the pivot indices the loop has gone through, in order
    flagged,        \* those at which the column was zero from the diagonal down
    rounded,        \* some roundOffToZero replaced a nonzero element
    pass,           \* "first", or how the second run of rref was started
    first,          \* the result of the first run of rref and the matrix it left
    calls,          \* the calls made on the types of the library, in order
    value           \* what the last of them returned or constructed

vars == <<input, matrix, op, zeroPrecision, pc, i, freeElements, result,
          processed, flagged, rounded, pass, first, calls, value>>

Shapes ==
    {s \in (1 .. MaxRows) \X (1 .. MaxCols) : s[1] * s[2] <= MaxCells}

EntriesOf(s) == IF s[1] * s[2] <= SmallCells THEN WideEntries ELSE Entries

\* The value grid of scalars of an integer grid.
Grid(g) == [r \in DOMAIN g |-> [c \in DOMAIN g[r] |-> Cast(g[r][c])]]

Init ==
    /\ \E s \in Shapes : input \in [1 .. s[1] -> [1 .. s[2] -> EntriesOf(s)]]
    /\ matrix = Matrix(Grid(input))
    /\ op = "none"
    /\ zeroPrecision = Cast(0)
    /\ pc = "ready"
    /\ i = 0
    /\ freeElements = FALSE
    /\ result = "none"
    /\ processed = <<>>
    /\ flagged = {}
    /\ rounded = FALSE
    /\ pass = "first"
    /\ first = <<>>
    /\ calls = <<>>
    /\ value = <<>>

NoThreshold == {"rref", "gaussJordan", "gauss_jordan"}
WithThreshold == {"rrefZp", "gaussJordanZp", "gauss_jordan_zp"}

\* A solver is called: step 0, then into rref.
EnterSolver(o, zp) ==
    /\ pc = "ready"
    /\ op' = o
    /\ zeroPrecision' = zp
    /\ IF underRepresented(matrix)
       THEN pc' = "returned" /\ result' = "UNDERDETERMINED_SYSTEM"
       ELSE pc' = "rref" /\ result' = result
    /\ UNCHANGED <<input, matrix, i, freeElements, processed, flagged, rounded,
                   pass, first,
                   calls, value>>

CallGaussJordan == EnterSolver("gaussJordan", Cast(0))
CallGaussJordanZp == \E zp \in Thresholds : EnterSolver("gaussJordanZp", zp)
Call_gauss_jordan == EnterSolver("gauss_jordan", Cast(0))
Call_gauss_jordan_zp == \E zp \in Thresholds : EnterSolver("gauss_jordan_zp", zp)

\* rref is called directly.
EnterRref(o, zp) ==
    /\ pc = "ready"
    /\ op' = o
    /\ zeroPrecision' = zp
    /\ pc' = "rref"
    /\ UNCHANGED <<input, matrix, i, freeElements, result, processed, flagged,
                   rounded, pass, first,
                   calls, value>>

CallRref == EnterRref("rref", Cast(0))
CallRrefZp == \E zp \in Thresholds : EnterRref("rrefZp", zp)

\* Column c of m is zero from row c down.
ZeroFromDiagonal(m, c) == \A r \in c .. m.nrows - 1 : At(m, r, c) = Zero

\* One iteration of the loop of rref(matrix).
RrefPivot ==
    /\ pc = "rref"
    /\ op \in NoThreshold
    /\ i < smallerDim(matrix)
    /\ LET it == rrefIteration(matrix, i)
       IN  /\ matrix' = it.matrix
           /\ freeElements' = (freeElements \/ it.free)
    /\ i' = i + 1
    /\ processed' = Append(processed, i)
    /\ flagged' = IF ZeroFromDiagonal(matrix, i) THEN flagged \cup {i} ELSE flagged
    /\ UNCHANGED <<input, op, zeroPrecision, pc, result, rounded, pass, first,
                   calls, value>>

\* One iteration of the loop of rref(matrix, zeroPrecision).
RrefPivotZp ==
    /\ pc = "rref"
    /\ op \in WithThreshold
    /\ i < smallerDim(matrix)
    /\ LET it == rrefZpIteration(matrix, i, zeroPrecision)
       IN  /\ matrix' = it.matrix
           /\ freeElements' = (freeElements \/ it.free)
           /\ rounded' = (rounded \/ it # rrefZpIteration(matrix, i, Cast(0)))
    /\ i' = i + 1
    /\ processed' = Append(processed, i)
    /\ flagged' = IF ZeroFromDiagonal(matrix, i) THEN flagged \cup {i} ELSE flagged
    /\ UNCHANGED <<input, op, zeroPrecision, pc, result, pass, first,
                   calls, value>>

\* The loop of rref is over and the function called returns.
Return(o, r) ==
    /\ pc = "rref"
    /\ op \in o
    /\ ~(i < smallerDim(matrix))
    /\ result' = r
    /\ pc' = "returned"
    /\ UNCHANGED <<input, matrix, op, zeroPrecision, i, freeElements, processed,
                   flagged, rounded, pass, first,
                   calls, value>>

ReturnRref == Return({"rref", "rrefZp"}, rrefResult(freeElements))

ReturnGaussJordan ==
    Return({"gaussJordan", "gaussJordanZp"},
           gaussJordan(rrefResult(freeElements), matrix))

Return_gauss_jordan ==
    \E err \in ErrorOfSuccess :
        Return({"gauss_jordan"}, gauss_jordan(rrefResult(freeElements), matrix, err))

Return_gauss_jordan_zp ==
    Return({"gauss_jordan_zp"}, gauss_jordan_zp(rrefResult(freeElements), matrix))

\* The caller runs rref(matrix) a second time on the matrix it has reduced.
RunAgain ==
    /\ pc = "returned"
    /\ op = "rref"
    /\ pass = "first"
    /\ first' = [result |-> result, matrix |-> matrix]
    /\ pass' = "again"
    /\ pc' = "rref"
    /\ i' = 0
    /\ freeElements' = FALSE
    /\ processed' = <<>>
    /\ flagged' = {}
    /\ UNCHANGED <<input, matrix, op, zeroPrecision, result, rounded,
                   calls, value>>

\* The grid g with rows r1 and r2 exchanged.
SwapRows(g, r1, r2) == [g EXCEPT ![r1] = g[r2], ![r2] = g[r1]]

\* The caller runs rref(matrix) on another matrix that holds the same
\* elements: built from the same rows, in storage in another order, and put in
\* the order of the input by exchangeRows.
RunOnCopy ==
    /\ pc = "returned"
    /\ op = "rref"
    /\ pass = "first"
    /\ first' = [result |-> result, matrix |-> matrix]
    /\ pass' = "copy"
    /\ \E r1, r2 \in 1 .. Len(input) :
          matrix' = exchangeRows(Matrix(Grid(SwapRows(input, r1, r2))), r1 - 1, r2 - 1)
    /\ pc' = "rref"
    /\ i' = 0
    /\ freeElements' = FALSE
    /\ processed' = <<>>
    /\ flagged' = {}
    /\ UNCHANGED <<input, op, zeroPrecision, result, rounded,
                   calls, value>>

\* The solvers.
Next ==
    \/ CallGaussJordan
    \/ CallGaussJordanZp
    \/ Call_gauss_jordan
    \/ Call_gauss_jordan_zp
    \/ RrefPivot
    \/ RrefPivotZp
    \/ ReturnGaussJordan
    \/ Return_gauss_jordan
    \/ Return_gauss_jordan_zp

Spec == Init /\ [][Next]_vars

\* The reducer on its own.
NextRref ==
    \/ CallRref
    \/ CallRrefZp
    \/ RrefPivot
    \/ RrefPivotZp
    \/ ReturnRref
    \/ RunAgain
    \/ RunOnCopy

SpecRref == Init /\ [][NextRref]_vars

\* ------------------------------------------------ vectors and predicates
\* A Vector is the sequence of its elements (element i of the source is
\* element i + 1 of the sequence).  A double is modelled by the exact value it
\* holds: the integers and products the predicates convert are far below 2^53.
size(v) == Len(v)

\* static_cast<double>(x)
ToDouble(x) == Rat(x[1], x[2])

\* acc += storage[k] * storage[k] for k < length, from element k on
RECURSIVE SumOfSquares(_, _)
SumOfSquares(v, k) ==
    IF k > Len(v) THEN Cast(0) ELSE Add(Mul(v[k], v[k]), SumOfSquares(v, k + 1))

\* mod adding the absolute values of the elements instead of their squares.
RECURSIVE SumOfAbsolutes(_, _)
SumOfAbsolutes(v, k) ==
    IF k > Len(v) THEN Cast(0)
    ELSE Add(IF Less(v[k], Cast(0)) THEN Neg(v[k]) ELSE v[k], SumOfAbsolutes(v, k + 1))

modOfAbsolutes(v) == ToDouble(SumOfAbsolutes(v, 1))

\* Vector::mod() const
mod(v) == ToDouble(SumOfSquares(v, 1))

\* operator*(Vector, Vector) throws for vectors of different sizes ...
dotThrows(lhs, rhs) == size(lhs) # size(rhs)

\* ... and otherwise accumulates lhs[k] * rhs[k], from element k on.
RECURSIVE dot(_, _, _)
dot(lhs, rhs, k) ==
    IF k > Len(lhs) THEN Cast(0) ELSE Add(Mul(lhs[k], rhs[k]), dot(lhs, rhs, k + 1))

\* Result<T, ErrorCode>::success(val) and ::failure(error)
success(val) == [ok |-> TRUE, val |-> val]
failure(error) == [ok |-> FALSE, error |-> error]

\* are_linearly_dependent without the comparison of the sizes.
are_linearly_dependent_unchecked(v1, v2) ==
    IF dotThrows(v1, v2) THEN invalid_argument
    ELSE LET d == ToDouble(dot(v1, v2, 1))
         IN  success(Mul(d, d) = Mul(mod(v1), mod(v2)))

\* are_linearly_dependent
are_linearly_dependent(v1, v2) ==
    IF size(v1) = size(v2)
    THEN IF dotThrows(v1, v2) THEN invalid_argument
         ELSE LET d == ToDouble(dot(v1, v2, 1))
              IN  success(Mul(d, d) = Mul(mod(v1), mod(v2)))
    ELSE failure("INCOMPATIBLE_VECTORS")

\* dot / std::sqrt(square), kept as the pair of its operands.
OverRoot(d, square) == [dot |-> d, square |-> square]

\* The double dot / std::sqrt(square) equals 1.0.
IsOne(q) == Less(Cast(0), q.dot) /\ Mul(q.dot, q.dot) = q.square

\* cosine_angle
cosine_angle(v1, v2) ==
    IF size(v1) = size(v2)
    THEN IF dotThrows(v1, v2) THEN invalid_argument
         ELSE success(OverRoot(ToDouble(dot(v1, v2, 1)), Mul(mod(v1), mod(v2))))
    ELSE failure("INCOMPATIBLE_VECTORS")

\* is_normal_to_plane; normal is plane.get_normal(), a vector of size 3.
is_normal_to_plane(normal, vec) ==
    IF size(vec) = 3
    THEN IF dotThrows(normal, vec) THEN invalid_argument
         ELSE success(IsOne(OverRoot(ToDouble(dot(normal, vec, 1)),
                                     Mul(mod(normal), mod(vec)))))
    ELSE failure("INCOMPATIBLE_VECTORS")

\* a - b
Sub(a, b) == Add(a, Neg(b))

\* cross with the components in the order of a left-handed product.
crossReversed(v1, v2) ==
    IF size(v1) = 3 /\ size(v2) = 3
    THEN success(<<Sub(Mul(v1[3], v2[2]), Mul(v1[2], v2[3])),
                   Sub(Mul(v1[1], v2[3]), Mul(v1[3], v2[1])),
                   Sub(Mul(v1[2], v2[1]), Mul(v1[1], v2[2]))>>)
    ELSE failure("INCOMPATIBLE_VECTORS")

\* cross: a1, a2, a3 are v1[0], v1[1], v1[2] of the source.
cross(v1, v2) ==
    IF size(v1) = 3 /\ size(v2) = 3
    THEN LET a1 == v1[1]
             a2 == v1[2]
             a3 == v1[3]
             b1 == v2[1]
             b2 == v2[2]
             b3 == v2[3]
         IN  success(<<Sub(Mul(a2, b3), Mul(a3, b2)),
                       Sub(Mul(a3, b1), Mul(a1, b3)),
                       Sub(Mul(a1, b2), Mul(a2, b1))>>)
    ELSE failure("INCOMPATIBLE_VECTORS")

\* ------------------------------------------- the Matrix in a caller's hands
\* The caller constructs a Matrix (from a value grid, from dimensions, as an
\* identity or as a zero matrix) and then makes up to MaxCalls calls in all on
\* it.  calls records each call as [op, args, rows, before]: rows are the row
\* indices passed and before is the matrix the call found.
MaxCalls == 3
MaxWidth == 2
GridCells == 4

\* The variables the calls on the types leave alone.
reducer == <<zeroPrecision, i, freeElements, processed, flagged, rounded, pass, first>>

\* A moved-from Matrix; it stands for the matrix the caller does not have yet.
NoMatrix == [nrows |-> 0, ncols |-> 0, rows |-> <<>>, storage |-> <<>>]

\* Nothing has been constructed or called.
Idle ==
    /\ input = <<>>
    /\ matrix = NoMatrix
    /\ op = "none"
    /\ zeroPrecision = Cast(0)
    /\ pc = "ready"
    /\ i = 0
    /\ freeElements = FALSE
    /\ result = "none"
    /\ processed = <<>>
    /\ flagged = {}
    /\ rounded = FALSE
    /\ pass = "first"
    /\ first = <<>>
    /\ calls = <<>>
    /\ value = <<>>

\* The sequences of at most n elements of S.
Lists(n, S) == UNION {[1 .. k -> S] : k \in 0 .. n}

RECURSIVE Cells(_)
Cells(g) == IF g = <<>> THEN 0 ELSE Len(Head(g)) + Cells(Tail(g))

\* The std::vector<std::vector<T>> values a caller passes: rectangular or not,
\* rows of any length from 0, any number of rows from 0.
ValueGrids == {g \in Lists(MaxRows, Lists(MaxWidth, Entries)) : Cells(g) <= GridCells}

\* A constructor or factory is called; x is what it yields.
Construct(c, grid, x) ==
    /\ pc = "ready"
    /\ calls' = <<[op |-> c, args |-> <<>>, rows |-> {}, before |-> matrix]>>
    /\ op' = c
    /\ input' = grid
    /\ IF Raised(x)
       THEN result' = x.raised /\ matrix' = matrix /\ pc' = "thrown"
       ELSE result' = "OK" /\ matrix' = x /\ pc' = "built"
    /\ UNCHANGED <<value, reducer>>

ConstructFromGrid ==
    /\ pc = "ready"
    /\ \E vecs \in ValueGrids : Construct("Matrix(vecs)", vecs, Matrix(Grid(vecs)))

ConstructFromDimensions ==
    \E nrows, ncols \in 0 .. MaxWidth :
        Construct("Matrix(nrows, ncols)", <<nrows, ncols>>, MatrixOfDimensions(nrows, ncols))

ConstructIdentity == \E sz \in 0 .. MaxWidth : Construct("identity", <<sz>>, identity(sz))

ConstructZero ==
    \E r, c \in 0 .. MaxWidth : Construct("zero", <<r, c>>, zero(r, c))

\* The factors a caller passes to scaleRow, and the pairs a, b it passes to
\* linearCombRows.
Factors == {Cast(2)}
Combinations == {<<Cast(2), Cast(-1)>>}

\* The row indices a caller passes: the valid ones, nrows and nrows + 1.
RowIndices == 0 .. matrix.nrows + 1

\* The call touches rows[nrows]: it passes the test r > nrows of the row
\* operations with some index equal to nrows.
TouchesPastTheEnd(m, rs) == m.nrows \in rs /\ \A r \in rs : r <= m.nrows

\* A row operation is called on the matrix; out is its outcome.
RowOperation(c, out) ==
    /\ pc = "built"
    /\ Len(calls) < MaxCalls
    /\ calls' = Append(calls, [c EXCEPT !.before = matrix])
    /\ op' = c.op
    /\ result' = out.signal
    /\ matrix' = out.matrix
    /\ pc' = IF TouchesPastTheEnd(matrix, c.rows) THEN "undefined" ELSE "built"
    /\ UNCHANGED <<input, value, reducer>>

CallExchangeRows ==
    \E r1, r2 \in RowIndices, g \in PastTheEnd(matrix) :
        RowOperation([op |-> "exchangeRows", args |-> <<r1, r2>>, rows |-> {r1, r2},
                      before |-> matrix],
                     exchangeRowsCall(matrix, r1, r2, g))

CallScaleRow ==
    \E row \in RowIndices, factor \in Factors, g \in PastTheEnd(matrix) :
        RowOperation([op |-> "scaleRow", args |-> <<row, factor>>, rows |-> {row},
                      before |-> matrix],
                     scaleRowCall(matrix, row, factor, g))

CallLinearCombRows ==
    \E r1, r2 \in RowIndices, ab \in Combinations, g \in PastTheEnd(matrix) :
        RowOperation([op |-> "linearCombRows", args |-> <<r1, ab[1], r2, ab[2]>>,
                      rows |-> {r1, r2}, before |-> matrix],
                     linearCombRowsCall(matrix, r1, ab[1], r2, ab[2], g))

\* The constructors and factories alone.
NextConstruct ==
    \/ ConstructFromGrid
    \/ ConstructFromDimensions
    \/ ConstructIdentity
    \/ ConstructZero

SpecConstruct == Idle /\ [][NextConstruct]_vars

\* Construction followed by row operations.
NextMatrix ==
    \/ ConstructFromGrid
    \/ ConstructFromDimensions
    \/ ConstructIdentity
    \/ ConstructZero
    \/ CallExchangeRows
    \/ CallScaleRow
    \/ CallLinearCombRows

SpecMatrix == Idle /\ [][NextMatrix]_vars

\* ------------------------------------- linear independence of a set of vectors
\* ColumnsMatrix keeping only as many rows as there are vectors.
ColumnsMatrixSquare(vectors, len) ==
    LET mat == MatrixOfDimensions(Len(vectors), Len(vectors))
    IN  [mat EXCEPT !.storage =
            [k \in DOMAIN mat.storage |->
                vectors[(k % mat.ncols) + 1][(k \div mat.ncols) + 1]]]

\* numeric::types::Matrix<T> mat{len, vectors.size()} with
\* mat[i][j] = vectors[j].get()[i]: the vectors are the columns.
ColumnsMatrix(vectors, len) ==
    LET mat == MatrixOfDimensions(len, Len(vectors))
    IN  [mat EXCEPT !.storage =
            [k \in DOMAIN mat.storage |->
                vectors[(k % mat.ncols) + 1][(k \div mat.ncols) + 1]]]

\* Matrix<T> mat{vectors.size(), len + 1} with mat[i][j] = vectors[i].get()[j]
\* and mat[i][len] = 0: the vectors are the rows, the last column is zero.
RowsMatrix(vectors, len) ==
    LET mat == MatrixOfDimensions(Len(vectors), len + 1)
    IN  [mat EXCEPT !.storage =
            [k \in DOMAIN mat.storage |->
                IF k % mat.ncols = len THEN Cast(0)
                ELSE vectors[(k \div mat.ncols) + 1][(k % mat.ncols) + 1]]]

\* The end of both functions: rref(mat), then the Result is read.  mat is
\* the local matrix as rref left it.
independenceFromRref(mat) ==
    LET r == rrefLoop(mat, 0, FALSE)
        res == rrefResult(r.free)
    IN  IF res # "OK"
        THEN IF res = "FREE_COLUMNS_RREF"
             THEN success(FALSE) @@ [mat |-> r.matrix]
             ELSE failure("UNKNOWN_ERROR") @@ [mat |-> r.matrix]
        ELSE success(TRUE) @@ [mat |-> r.matrix]

\* linear_independence_of_system answering before it compares the lengths.
linear_independence_of_system_count_first(vectors) ==
    IF Len(vectors) = 1 THEN failure("UNDERDETERMINED_SYSTEM") @@ [mat |-> NoMatrix]
    ELSE IF Len(vectors) = 0 THEN [raised |-> "undefined"]
    ELSE LET len == size(vectors[1])
         IN  IF Len(vectors) > len THEN success(FALSE) @@ [mat |-> NoMatrix]
             ELSE IF \E k \in DOMAIN vectors : size(vectors[k]) # len
             THEN failure("INCOMPATIBLE_VECTORS") @@ [mat |-> NoMatrix]
             ELSE independenceFromRref(ColumnsMatrix(vectors, len))

\* numeric::functions::linear_independence_of_system.  The Result it returns
\* is extended with mat, the local matrix (NoMatrix when none was built);
\* vectors[0] of an empty list is undefined.
linear_independence_of_system(vectors) ==
    IF Len(vectors) = 1 THEN failure("UNDERDETERMINED_SYSTEM") @@ [mat |-> NoMatrix]
    ELSE IF Len(vectors) = 0 THEN [raised |-> "undefined"]
    ELSE LET len == size(vectors[1])
         IN  IF \E k \in DOMAIN vectors : size(vectors[k]) # len
             THEN failure("INCOMPATIBLE_VECTORS") @@ [mat |-> NoMatrix]
             ELSE IF Len(vectors) > len THEN success(FALSE) @@ [mat |-> NoMatrix]
             ELSE independenceFromRref(ColumnsMatrix(vectors, len))

\* Sigabrt::Numeric::linearIndependenceOfSystem, the same function over the
\* matrix of rows.
linearIndependenceOfSystem(vectors) ==
    IF Len(vectors) = 1 THEN failure("UNDERDETERMINED_SYSTEM") @@ [mat |-> NoMatrix]
    ELSE IF Len(vectors) = 0 THEN [raised |-> "undefined"]
    ELSE LET len == size(vectors[1])
         IN  IF \E k \in DOMAIN vectors : size(vectors[k]) # len
             THEN failure("INCOMPATIBLE_VECTORS") @@ [mat |-> NoMatrix]
             ELSE IF Len(vectors) > len THEN success(FALSE) @@ [mat |-> NoMatrix]
             ELSE independenceFromRref(RowsMatrix(vectors, len))

\* -------------------------------------------- the predicates in a caller's hands
MaxVectors == 3
MaxLen == 3

\* The Vector of an integer sequence.
VectorOf(v) == [k \in DOMAIN v |-> Cast(v[k])]
VectorsOf(vs) == [k \in DOMAIN vs |-> VectorOf(vs[k])]

\* The vectors a caller passes to the predicates of two operands.
OperandExamples == {<<1, 2>>, <<-1, -2>>, <<1, 55>>, <<6, 7, -5>>, <<8, 7, -11>>}
Operands == Lists(MaxLen, WideEntries) \cup OperandExamples

\* The normals of the planes it passes.
Normals == {n \in [1 .. 3 -> WideEntries] : \E k \in 1 .. 3 : n[k] # 0}

\* The lists of vectors it passes: of one length, of several lengths, and
\* lists of the vectors [1,2,3], [1,3,5], [3,-1,3], [2,4,6].
SystemShapes == {s \in (1 .. MaxVectors) \X (0 .. MaxLen) : s[1] * s[2] <= MaxCells}
SystemExamples == {<<1, 2, 3>>, <<1, 3, 5>>, <<3, -1, 3>>, <<2, 4, 6>>}
Systems ==
    UNION {[1 .. s[1] -> [1 .. s[2] -> EntriesOf(s)]] : s \in SystemShapes}
        \cup Lists(MaxVectors, Lists(MaxLen, {1}))
        \cup Lists(MaxVectors + 1, SystemExamples)

\* A predicate is called with args and returns x.
Predicate(c, args, x) ==
    /\ calls' = <<[op |-> c, args |-> args, rows |-> {}, before |-> matrix]>>
    /\ op' = c
    /\ result' = IF Raised(x) THEN x.raised ELSE IF x.ok THEN "OK" ELSE x.error
    /\ value' = IF ~Raised(x) /\ x.ok THEN <<x.val>> ELSE <<>>
    /\ matrix' = IF "mat" \in DOMAIN x THEN x.mat ELSE matrix
    /\ pc' = "returned"
    /\ UNCHANGED <<input, reducer>>

Call_are_linearly_dependent ==
    /\ pc = "ready"
    /\ \E v1, v2 \in Operands :
           Predicate("are_linearly_dependent", <<v1, v2>>,
                     are_linearly_dependent(VectorOf(v1), VectorOf(v2)))

Call_cosine_angle ==
    /\ pc = "ready"
    /\ \E v1, v2 \in Operands :
           Predicate("cosine_angle", <<v1, v2>>, cosine_angle(VectorOf(v1), VectorOf(v2)))

Call_is_normal_to_plane ==
    /\ pc = "ready"
    /\ \E normal \in Normals, vec \in Operands :
           Predicate("is_normal_to_plane", <<normal, vec>>,
                     is_normal_to_plane(VectorOf(normal), VectorOf(vec)))

Call_cross ==
    /\ pc = "ready"
    /\ \E v1, v2 \in Operands :
           Predicate("cross", <<v1, v2>>, cross(VectorOf(v1), VectorOf(v2)))

Call_linear_independence_of_system ==
    /\ pc = "ready"
    /\ \E vectors \in Systems :
           Predicate("linear_independence_of_system", vectors,
                     linear_independence_of_system(VectorsOf(vectors)))

Call_linearIndependenceOfSystem ==
    /\ pc = "ready"
    /\ \E vectors \in Systems :
           Predicate("linearIndependenceOfSystem", vectors,
                     linearIndependenceOfSystem(VectorsOf(vectors)))

NextVectors ==
    \/ Call_are_linearly_dependent
    \/ Call_cosine_angle
    \/ Call_is_normal_to_plane
    \/ Call_cross
    \/ Call_linear_independence_of_system
    \/ Call_linearIndependenceOfSystem

SpecVectors == Idle /\ [][NextVectors]_vars

\* ------------------------------------------------- linear systems, by hand
\* The reference notions the claims speak of, computed from the integer grid
\* the caller started from and by determinants, not by reduction.

RECURSIVE SortedSeq(_)
SortedSeq(S) ==
    IF S = {} THEN <<>>
    ELSE LET x == CHOOSE y \in S : \A z \in S : y <= z
         IN  <<x>> \o SortedSeq(S \ {x})

RemoveAt(q, k) == SubSeq(q, 1, k - 1) \o SubSeq(q, k + 1, Len(q))

\* The determinant of the rows rs and columns cs of g (sequences of one
\* length), expanded along the first row.
RECURSIVE Det(_, _, _)
RECURSIVE DetTerms(_, _, _, _)
Det(g, rs, cs) == IF Len(rs) = 0 THEN 1 ELSE DetTerms(g, rs, cs, 1)
DetTerms(g, rs, cs, k) ==
    IF k > Len(cs) THEN 0
    ELSE (IF k % 2 = 1 THEN 1 ELSE -1) * g[rs[1]][cs[k]]
              * Det(g, Tail(rs), RemoveAt(cs, k))
         + DetTerms(g, rs, cs, k + 1)

\* The rank of the columns C of g: the size of a largest nonzero minor.
Rank(g, C) ==
    LET R == 1 .. Len(g)
        sizes == {k \in 0 .. Cardinality(C) :
                    \E rs \in SUBSET R, cc \in SUBSET C :
                        /\ Cardinality(rs) = k
                        /\ Cardinality(cc) = k
                        /\ Det(g, SortedSeq(rs), SortedSeq(cc)) # 0}
    IN  CHOOSE k \in sizes : \A q \in sizes : q <= k

Unknowns(g) == Len(g[1]) - 1
\* The system of the augmented grid g has a solution / exactly one / several.
Consistent(g) == Rank(g, 1 .. Unknowns(g)) = Rank(g, 1 .. Unknowns(g) + 1)
OneSolution(g) == Consistent(g) /\ Rank(g, 1 .. Unknowns(g)) = Unknowns(g)
ManySolutions(g) == Consistent(g) /\ Rank(g, 1 .. Unknowns(g)) < Unknowns(g)

\* sum over c = k .. Unknowns(g) of g[r][c] * x[c]
RECURSIVE LeftSide(_, _, _, _)
LeftSide(g, r, x, k) ==
    IF k > Unknowns(g) THEN Zero
    ELSE Add(Mul(Cast(g[r][k]), x[k]), LeftSide(g, r, x, k + 1))

\* x (a function on 1 .. Unknowns(g)) satisfies every equation of g.
Solves(g, x) == \A r \in 1 .. Len(g) : LeftSide(g, r, x, 1) = Cast(g[r][Len(g[1])])

\* The last column of the caller's matrix, entries 0 .. ncols-2.
LastColumn(m) == [c \in 1 .. m.ncols - 1 |-> At(m, c - 1, m.ncols - 1)]

\* The first ncols-1 rows and columns of m are the identity.
LeftBlockIdentity(m) ==
    \A r, c \in 0 .. m.ncols - 2 : At(m, r, c) = IF r = c THEN One ELSE Zero

Solvers == {"gaussJordan", "gaussJordanZp", "gauss_jordan", "gauss_jordan_zp"}
\* The solvers whose classification of a free column is the intended one.
ClassifyingSolvers == {"gaussJordan", "gaussJordanZp", "gauss_jordan_zp"}

\* A solver has returned from a call on an augmented matrix with at least one
\* unknown and nrows >= ncols-1, and no threshold replaced a nonzero element.
Solved(o) ==
    /\ pc = "returned"
    /\ op \in o
    /\ Len(input[1]) >= 2
    /\ Len(input) >= Len(input[1]) - 1
    /\ ~rounded

\* ------------------------------------------------------------- the claims
\* C1: whenever gauss_jordan returns success, the first ncols-1 rows and
\* columns of the caller's matrix are the identity and the last column solves
\* the original system.
C1_SuccessSolvesOriginal ==
    (Solved(ClassifyingSolvers) /\ result = "OK")
        => (LeftBlockIdentity(matrix) /\ Solves(input, LastColumn(matrix)))

\* C2: a system with nrows >= ncols-1 that has no solution makes gauss_jordan
\* fail with NoSolutions.
C2_InconsistentGivesNoSolutions ==
    (Solved(ClassifyingSolvers) /\ ~Consistent(input)) => result = "NO_SOLUTIONS"

\* C3: whenever gauss_jordan fails with InfiniteSolutions, the original system
\* is consistent and has more than one solution.
C3_InfiniteMeansManySolutions ==
    (Solved(ClassifyingSolvers) /\ result = "INFINITE_SOLUTIONS")
        => ManySolutions(input)

\* C4: a consistent system with nrows >= ncols-1 whose coefficient block has
\* rank below ncols-1 makes gauss_jordan fail with InfiniteSolutions, with and
\* without a zero threshold.
C4_RankDeficientGivesInfinite ==
    (Solved(Solvers) /\ ManySolutions(input)) => result = "INFINITE_SOLUTIONS"

\* C4, for the solvers other than numeric::functions::gauss_jordan(matrix).
C4_ClassifyingSolversGiveInfinite ==
    (Solved(ClassifyingSolvers) /\ ManySolutions(input))
        => result = "INFINITE_SOLUTIONS"

WithoutThreshold(g) ==
    LET r == rrefLoop(Matrix(Grid(g)), 0, FALSE)
    IN  {gauss_jordan(rrefResult(r.free), r.matrix, err) : err \in ErrorOfSuccess}

\* C6: neither gauss_jordan variant hands FreeColumnsInRref to its caller, a
\* success of the reducer is returned as success, and with a threshold that
\* rounds nothing the variant with threshold returns what the variant without
\* it returns.
C6_NeverFreeColumns ==
    (pc = "returned" /\ op \in {"gauss_jordan", "gauss_jordan_zp"})
        => /\ result # "FREE_COLUMNS_RREF"
           /\ (~underRepresented(matrix) /\ ~freeElements) => result = "OK"
           /\ (op = "gauss_jordan_zp" /\ ~underRepresented(matrix) /\ ~rounded)
                 => result \in WithoutThreshold(input)

\* C7: when rref returns success, every pivot column i < min(nrows, ncols)
\* holds 1 at row i and 0 in every other row.
C7_PivotColumnsAreUnit ==
    (pc = "returned" /\ op = "rref" /\ result = "OK")
        => \A c \in 0 .. smallerDim(matrix) - 1 :
              \A r \in 0 .. matrix.nrows - 1 :
                 At(matrix, r, c) = IF r = c THEN One ELSE Zero

C7_Witness ==
    /\ pc = "returned"
    /\ op = "rref"
    /\ pass = "first"
    /\ result = "OK"
    /\ matrix.nrows = 3
    /\ matrix.ncols = 3
    /\ matrix.rows # initializeSlices(3, 3)
    /\ \A r, c \in 1 .. 3 : input[r][c] # (IF r = c THEN 1 ELSE 0)

\* C8: rref fails with FreeColumnsInRref exactly when at some pivot index the
\* column was zero from the diagonal down at the moment the index was
\* processed, and it returns only after it has processed every pivot index
\* 0 .. min(nrows, ncols)-1 in order, flagged or not.
C8_FreeColumnsAndFullLoop ==
    (pc = "returned" /\ op \in {"rref", "rrefZp"})
        => /\ (result = "FREE_COLUMNS_RREF") <=> (flagged # {})
           /\ result \in {"FREE_COLUMNS_RREF", "OK"}
           /\ processed = [k \in 1 .. smallerDim(matrix) |-> k - 1]

C8_Witness ==
    /\ pc = "returned"
    /\ op = "rref"
    /\ pass = "first"
    /\ result = "FREE_COLUMNS_RREF"
    /\ flagged = {0}
    /\ processed = <<0, 1, 2>>
    /\ View(matrix) # View(Matrix(Grid(input)))

C10_Determinism ==
    (pc = "returned" /\ pass = "copy")
        => (result = first.result /\ View(matrix) = View(first.matrix))

C10_Witness ==
    /\ pc = "returned"
    /\ pass = "copy"
    /\ result = "OK"
    /\ matrix.nrows = 3
    /\ matrix.ncols = 3
    /\ View(first.matrix) # View(Matrix(Grid(input)))
    /\ matrix.storage # first.matrix.storage
    /\ View(matrix) = View(first.matrix)

\* ------------------------------------------------- the claims on the Matrix
LastCall == calls[Len(calls)]
RowOperations == {"exchangeRows", "scaleRow", "linearCombRows"}
\* Every row index the call c passed was one of a row of the matrix it found.
ValidRows(c) == \A r \in c.rows : r < c.before.nrows

\* C11: with valid row indices r1, r2 (equal or not) one exchangeRows(r1, r2)
\* makes row r1 read as the former row r2 and row r2 as the former row r1 and
\* changes no other row, and a second call with the same indices restores
\* every element of the matrix.
C11_ExchangeTwiceRestores ==
    (Len(calls) >= 2 /\ LastCall.op = "exchangeRows" /\ ValidRows(LastCall))
        => LET c == LastCall
               r1 == c.args[1]
               r2 == c.args[2]
               p == calls[Len(calls) - 1]
           IN  /\ result = "OK"
               /\ matrix.nrows = c.before.nrows
               /\ matrix.ncols = c.before.ncols
               /\ View(matrix)[r1] = View(c.before)[r2]
               /\ View(matrix)[r2] = View(c.before)[r1]
               /\ \A r \in (0 .. matrix.nrows - 1) \ {r1, r2} :
                     View(matrix)[r] = View(c.before)[r]
               /\ (p.op = "exchangeRows" /\ p.args = c.args)
                     => View(matrix) = View(p.before)

C11_Witness ==
    /\ Len(calls) = 3
    /\ calls[2].op = "exchangeRows"
    /\ calls[3].op = "exchangeRows"
    /\ calls[2].args = <<0, 2>>
    /\ calls[3].args = <<0, 2>>
    /\ matrix.nrows = 3
    /\ View(calls[3].before) # View(calls[2].before)
    /\ View(matrix) = View(calls[2].before)

\* C12: linearCombRows, exchangeRows and scaleRow called with some row index
\* r >= nrows (r = nrows included) signal out_of_range and leave the matrix,
\* storage and row views, as it was.
C12_InvalidRowsSignalOutOfRange ==
    (Len(calls) >= 2 /\ LastCall.op \in RowOperations /\ ~ValidRows(LastCall))
        => (result = "out_of_range" /\ matrix = LastCall.before)

\* C12, for the indices beyond nrows only.
C12_BeyondNrowsSignalsOutOfRange ==
    (Len(calls) >= 2 /\ LastCall.op \in RowOperations
        /\ \E r \in LastCall.rows : r > LastCall.before.nrows)
        => (result = "out_of_range" /\ matrix = LastCall.before)

\* C13: a Matrix that was constructed (from dimensions, from a value grid, as
\* an identity or as a zero matrix) has nrows >= 1 and ncols >= 1 and each of
\* its row views has ncols elements, also after row operations.
C13_DimensionsAtLeastOne ==
    (pc \in {"built", "undefined"})
        => /\ matrix.nrows >= 1
           /\ matrix.ncols >= 1
           /\ DOMAIN matrix.rows = 0 .. matrix.nrows - 1
           /\ \A r \in DOMAIN matrix.rows : Cardinality(Block(matrix, r)) = matrix.ncols

\* C13, for the matrices constructed from a value grid.
C13_GridMatricesAtLeastOne ==
    (pc \in {"built", "undefined"} /\ calls[1].op = "Matrix(vecs)")
        => /\ matrix.nrows >= 1
           /\ matrix.ncols >= 1
           /\ DOMAIN matrix.rows = 0 .. matrix.nrows - 1
           /\ \A r \in DOMAIN matrix.rows : Cardinality(Block(matrix, r)) = matrix.ncols

\* The grid has no row, a row without elements, or two rows of different length.
Malformed(vecs) ==
    \/ vecs = <<>>
    \/ \E r \in DOMAIN vecs : vecs[r] = <<>>
    \/ \E r, q \in DOMAIN vecs : Len(vecs[r]) # Len(vecs[q])

\* C14: Matrix(vecs) signals invalid_argument exactly when the grid has no
\* row, a row of length zero or two rows of different length; otherwise the
\* matrix has as many rows as the grid, as many columns as a row is long, and
\* element (i, j) is vecs[i][j].
C14_GridConstruction ==
    (Len(calls) = 1 /\ op = "Matrix(vecs)")
        => /\ (result = "invalid_argument") <=> Malformed(input)
           /\ result \in {"invalid_argument", "OK"}
           /\ (pc = "built") <=> (result = "OK")
           /\ (result = "OK")
                 => /\ matrix.nrows = Len(input)
                    /\ matrix.ncols = Len(input[1])
                    /\ \A r \in 1 .. Len(input) : \A c \in 1 .. Len(input[1]) :
                          At(matrix, r - 1, c - 1) = Cast(input[r][c])

C14_Witness ==
    /\ Len(calls) = 1
    /\ op = "Matrix(vecs)"
    /\ result = "OK"
    /\ input = <<<<0, 1>>, <<1, 0>>>>
    /\ At(matrix, 0, 1) = One
    /\ At(matrix, 1, 1) = Zero

\* C14, a grid whose second row is shorter is refused.
C14_WitnessRagged ==
    /\ Len(calls) = 1
    /\ op = "Matrix(vecs)"
    /\ result = "invalid_argument"
    /\ input = <<<<0, 1>>, <<1>>>>

\* --------------------------------------------- the claims on the predicates
\* The call made and its operands, as the integer sequences the caller passed.
TheCall == calls[1]
Returned(o) == pc = "returned" /\ op = o

\* The operands have no one length / not the length the predicate supports.
Mismatched(c) ==
    CASE c.op \in {"are_linearly_dependent", "cosine_angle"} ->
            Len(c.args[1]) # Len(c.args[2])
      [] c.op = "is_normal_to_plane" -> Len(c.args[2]) # 3
      [] c.op = "cross" -> Len(c.args[1]) # 3 \/ Len(c.args[2]) # 3
      [] c.op = "linear_independence_of_system" ->
            \E j, k \in DOMAIN c.args : Len(c.args[j]) # Len(c.args[k])
      [] OTHER -> FALSE

PredicatesOfTheClaim ==
    {"are_linearly_dependent", "cosine_angle", "is_normal_to_plane", "cross",
     "linear_independence_of_system"}

\* C15: every predicate given vectors of mismatched or unsupported dimension
\* returns the error IncompatibleVectors, and no call of a predicate ends with
\* out_of_range or invalid_argument.
C15_MismatchGivesIncompatibleVectors ==
    (pc = "returned" /\ op \in PredicatesOfTheClaim)
        => /\ Mismatched(TheCall) => (result = "INCOMPATIBLE_VECTORS" /\ value = <<>>)
           /\ result \notin {"out_of_range", "invalid_argument"}

C15_Witness ==
    /\ Returned("are_linearly_dependent")
    /\ TheCall.args = <<<<1, 0, 1>>, <<1, 0>>>>
    /\ result = "INCOMPATIBLE_VECTORS"

\* The integer vectors vs (all of length n) are linearly independent: the
\* matrix they form has rank Len(vs).
Independent(vs, n) == Rank(vs, 1 .. n) = Len(vs)

\* The vectors of the list have one length.
OneLength(vs) == \A j, k \in DOMAIN vs : Len(vs[j]) = Len(vs[k])

\* C16: for k >= 2 vectors of one length n with k <= n,
\* linear_independence_of_system returns success(true) if the vectors are
\* linearly independent and success(false) if they are not.
C16_IndependenceIsDecided ==
    (Returned("linear_independence_of_system")
        /\ Len(TheCall.args) >= 2
        /\ OneLength(TheCall.args)
        /\ Len(TheCall.args) <= Len(TheCall.args[1]))
        => /\ result = "OK"
           /\ value = <<Independent(TheCall.args, Len(TheCall.args[1]))>>

C16_Witness ==
    /\ Returned("linear_independence_of_system")
    /\ TheCall.args = <<<<1, 2, 3>>, <<1, 3, 5>>, <<3, -1, 3>>>>
    /\ result = "OK"
    /\ value = <<TRUE>>

\* C16, a dependent set: [2,4,6] is twice [1,2,3].
C16_WitnessDependent ==
    /\ Returned("linear_independence_of_system")
    /\ TheCall.args = <<<<1, 2, 3>>, <<1, 3, 5>>, <<2, 4, 6>>>>
    /\ result = "OK"
    /\ value = <<FALSE>>

\* C17: linear_independence_of_system with exactly one vector fails with
\* UnderdeterminedSystem; otherwise with a vector of another length than the
\* first it fails with IncompatibleVectors, however many vectors there are;
\* otherwise with more vectors than their length it returns success(false);
\* in all three cases no matrix is built.
C17_OrderOfInputChecks ==
    (Returned("linear_independence_of_system") /\ Len(TheCall.args) >= 1)
        => LET vs == TheCall.args
           IN  /\ Len(vs) = 1 => (result = "UNDERDETERMINED_SYSTEM" /\ matrix = NoMatrix)
               /\ (Len(vs) >= 2 /\ ~OneLength(vs))
                     => (result = "INCOMPATIBLE_VECTORS" /\ matrix = NoMatrix)
               /\ (Len(vs) >= 2 /\ OneLength(vs) /\ Len(vs) > Len(vs[1]))
                     => (result = "OK" /\ value = <<FALSE>> /\ matrix = NoMatrix)
               /\ (Len(vs) >= 2 /\ OneLength(vs) /\ Len(vs) <= Len(vs[1]))
                     => (matrix.nrows = Len(vs[1]) /\ matrix.ncols = Len(vs))

\* More vectors than the length of the first, and one of another length.
C17_Witness ==
    /\ Returned("linear_independence_of_system")
    /\ TheCall.args = <<<<1>>, <<1, 1>>, <<1>>>>
    /\ result = "INCOMPATIBLE_VECTORS"
    /\ matrix = NoMatrix

\* The sum of v[k] * w[k] over the elements of two integer sequences.
RECURSIVE IntDot(_, _)
IntDot(v, w) == IF v = <<>> THEN 0 ELSE Head(v) * Head(w) + IntDot(Tail(v), Tail(w))

\* One of the integer vectors is a multiple of the other: every 2x2 minor of
\* the pair is zero.
Parallel(v, w) == \A j, k \in DOMAIN v : v[j] * w[k] = v[k] * w[j]

\* C18: for two vectors of equal length with integer entries
\* are_linearly_dependent returns success(true) exactly when
\* dot(v1,v2)^2 = |v1|^2 * |v2|^2, which is exactly when one of them is a
\* multiple of the other (the zero vector is one of any).
C18_DependenceOfTwo ==
    (Returned("are_linearly_dependent") /\ Len(TheCall.args[1]) = Len(TheCall.args[2]))
        => LET v == TheCall.args[1]
               w == TheCall.args[2]
           IN  /\ result = "OK"
               /\ value = <<IntDot(v, w) * IntDot(v, w) = IntDot(v, v) * IntDot(w, w)>>
               /\ value = <<Parallel(v, w)>>

C18_Witness ==
    /\ Returned("are_linearly_dependent")
    /\ TheCall.args = <<<<1, 2>>, <<-1, -2>>>>
    /\ value = <<TRUE>>

C18_WitnessIndependent ==
    /\ Returned("are_linearly_dependent")
    /\ TheCall.args = <<<<1, 2>>, <<1, 55>>>>
    /\ value = <<FALSE>>

\* C19: for 3-vectors a and b cross(a, b) returns success with
\* (a1*b2 - a2*b1, a2*b0 - a0*b2, a0*b1 - a1*b0) (0-based), a vector whose dot
\* product with a and with b is zero; cross([6,7,-5],[8,7,-11]) is
\* [-42, 26, -14].
C19_CrossProduct ==
    (Returned("cross") /\ Len(TheCall.args[1]) = 3 /\ Len(TheCall.args[2]) = 3)
        => LET a == TheCall.args[1]
               b == TheCall.args[2]
               c == <<a[2] * b[3] - a[3] * b[2],
                      a[3] * b[1] - a[1] * b[3],
                      a[1] * b[2] - a[2] * b[1]>>
           IN  /\ result = "OK"
               /\ value = <<VectorOf(c)>>
               /\ dot(value[1], VectorOf(a), 1) = Cast(0)
               /\ dot(value[1], VectorOf(b), 1) = Cast(0)
               /\ (a = <<6, 7, -5>> /\ b = <<8, 7, -11>>) => c = <<-42, 26, -14>>

C19_Witness ==
    /\ Returned("cross")
    /\ TheCall.args = <<<<6, 7, -5>>, <<8, 7, -11>>>>
    /\ result = "OK"
    /\ value = <<VectorOf(<<-42, 26, -14>>)>>

\* ------------------------------------------------------------- the Fraction
\* The numerators and denominators tried are -FractionRange .. FractionRange.
FractionRange == 6

\* long / long: the quotient truncated towards zero.
Quotient(a, b) ==
    IF (a < 0) = (b < 0) THEN Abs(a) \div Abs(b) ELSE -(Abs(a) \div Abs(b))

\* The while loop of validateInputsAndReduce on n1 and n2.
RECURSIVE reduceLoop(_, _)
reduceLoop(n1, n2) ==
    IF n1 >= 1 /\ n2 >= 1
    THEN LET a == IF n2 > n1 THEN n2 ELSE n1
             b == IF n2 > n1 THEN n1 ELSE n2
         IN  IF a % b = 0 THEN b ELSE reduceLoop(b, a - b)
    ELSE n2

\* validateInputsAndReduce(num, den): the divisor the constructor divides by.
validateInputsAndReduce(num, den) ==
    IF den = 0 THEN invalid_argument
    ELSE IF num = 0 THEN 1
    ELSE IF num = den THEN num
    ELSE reduceLoop(Abs(num), Abs(den))

\* Fraction(num, den): Fraction(validateInputsAndReduce(num, den), num, den)
\* with num {num/_gcd}, den {den/_gcd}.
Fraction(num, den) ==
    LET g == validateInputsAndReduce(num, den)
    IN  IF den = 0 THEN g
        ELSE [num |-> Quotient(num, g), den |-> Quotient(den, g)]

\* A caller constructs one Fraction.
ConstructFraction ==
    /\ pc = "ready"
    /\ \E num, den \in -FractionRange .. FractionRange :
          LET f == Fraction(num, den)
              c == [op |-> "Fraction", args |-> <<num, den>>]
          IN  /\ calls' = Append(calls, c)
              /\ op' = "Fraction"
              /\ result' = IF Raised(f) THEN f.raised ELSE "OK"
              /\ value' = IF Raised(f) THEN <<>> ELSE <<f>>
              /\ pc' = IF Raised(f) THEN "thrown" ELSE "built"
    /\ UNCHANGED <<input, matrix, reducer>>

NextFraction == ConstructFraction

SpecFraction == Idle /\ [][NextFraction]_vars

\* A Fraction has been asked for.
FractionAsked == op = "Fraction" /\ pc \in {"built", "thrown"}

\* C20: Fraction(num, den) ends with invalid_argument when den = 0; for every
\* other pair the stored fraction has the value num/den and is in lowest
\* terms, gcd(|stored num|, |stored den|) = 1, also when num = 0 or when num
\* or den is negative.
C20_StoredInLowestTerms ==
    FractionAsked
        => LET num == TheCall.args[1]
               den == TheCall.args[2]
           IN  /\ den = 0 => result = "invalid_argument"
               /\ den # 0 =>
                     /\ result = "OK"
                     /\ value[1].den # 0
                     /\ value[1].num * den = num * value[1].den
                     /\ gcd(Abs(value[1].num), Abs(value[1].den)) = 1

\* C20 for the pairs with a numerator other than 0, and the zero denominator
\* and the value for all pairs.
C20_NonZeroNumeratorsInLowestTerms ==
    FractionAsked
        => LET num == TheCall.args[1]
               den == TheCall.args[2]
           IN  /\ den = 0 => result = "invalid_argument"
               /\ den # 0 =>
                     /\ result = "OK"
                     /\ value[1].den # 0
                     /\ value[1].num * den = num * value[1].den
                     /\ num # 0 => gcd(Abs(value[1].num), Abs(value[1].den)) = 1

\* Fraction(0, 5) is stored as 0/5.
C20_ZeroOverFive ==
    /\ FractionAsked
    /\ TheCall.args = <<0, 5>>
    /\ value = <<[num |-> 0, den |-> 5]>>

\* --------------------------------------------------------------- the Plane
\* The coefficients tried are -PlaneRange .. PlaneRange.
PlaneRange == 2

\* The scalar types T a Plane is instantiated with: an integer type, whose
\* division truncates, and an exact one.
ScalarTypes == {"long", "exact"}

\* k / a in the type T.
DivideIn(T, k, a) ==
    IF T = "long" THEN Cast(Quotient(k[1], a[1])) ELSE Div(k, a)

\* Plane(a, b, c, k): the normal is (a, b, c), the point lies on the first
\* axis whose coefficient is not 0.
Plane(T, a, b, c, k) ==
    IF a = Cast(0) /\ b = Cast(0) /\ c = Cast(0) THEN invalid_argument
    ELSE [normal |-> <<a, b, c>>,
          point |-> IF a # Cast(0) THEN <<DivideIn(T, k, a), Cast(0), Cast(0)>>
                    ELSE IF b # Cast(0) THEN <<Cast(0), DivideIn(T, k, b), Cast(0)>>
                    ELSE <<Cast(0), Cast(0), DivideIn(T, k, c)>>,
          coefficients |-> <<a, b, c, k>>]

\* Plane(normal, point): both are copied, k is normal * point.
PlaneFromNormalAndPoint(normal, point) ==
    IF size(normal) # 3 \/ size(point) # 3 THEN invalid_argument
    ELSE [normal |-> <<normal[1], normal[2], normal[3]>>,
          point |-> <<point[1], point[2], point[3]>>,
          coefficients |-> <<normal[1], normal[2], normal[3], dot(normal, point, 1)>>]

\* The vectors a Plane is built from: all of size 3 over the coefficients,
\* one too short and one too long.
PlaneVectors ==
    {<<x, y, z>> : x, y, z \in -1 .. 1} \cup {<<1, 2>>, <<1, 2, 3, 4>>}

\* A caller has asked for a Plane and holds it, or the exception.
PlaneCall(c, x) ==
    /\ calls' = Append(calls, c)
    /\ op' = c.op
    /\ result' = IF Raised(x) THEN x.raised ELSE "OK"
    /\ value' = IF Raised(x) THEN <<>> ELSE <<x>>
    /\ pc' = IF Raised(x) THEN "thrown" ELSE "built"
    /\ UNCHANGED <<input, matrix, reducer>>

ConstructPlane ==
    /\ pc = "ready"
    /\ \E T \in ScalarTypes, a, b, c, k \in -PlaneRange .. PlaneRange :
          PlaneCall([op |-> "Plane", T |-> T, args |-> <<a, b, c, k>>],
                    Plane(T, Cast(a), Cast(b), Cast(c), Cast(k)))

ConstructPlaneFromNormalAndPoint ==
    /\ pc = "ready"
    /\ \E T \in ScalarTypes, normal, point \in PlaneVectors :
          PlaneCall([op |-> "PlaneFromNormalAndPoint", T |-> T, args |-> <<normal, point>>],
                    PlaneFromNormalAndPoint(VectorOf(normal), VectorOf(point)))

NextPlane ==
    \/ ConstructPlane
    \/ ConstructPlaneFromNormalAndPoint

SpecPlane == Idle /\ [][NextPlane]_vars

\* A Plane has been asked for / is held by the caller.
PlaneAsked == op \in {"Plane", "PlaneFromNormalAndPoint"} /\ pc \in {"built", "thrown"}
PlaneBuilt == PlaneAsked /\ pc = "built"

\* The normal the caller gave: (a, b, c), or the vector.
GivenNormal ==
    IF op = "Plane" THEN SubSeq(TheCall.args, 1, 3) ELSE TheCall.args[1]

NonZeroNormal(n) == Len(n) = 3 /\ \E j \in 1 .. 3 : n[j] # Cast(0)

\* C21: every Plane constructed, by either constructor, has a normal of
\* dimension 3 with a component other than 0, and a construction with an
\* all-zero normal ends with invalid_argument.
C21_NormalIsNonZero ==
    /\ PlaneBuilt => NonZeroNormal(value[1].normal)
    /\ (PlaneAsked /\ GivenNormal = <<0, 0, 0>>) => result = "invalid_argument"

\* C21 for the constructor from the coefficients alone, and the dimension for
\* both.
C21_CoefficientPlanesHaveNormal ==
    /\ (PlaneBuilt /\ op = "Plane") => NonZeroNormal(value[1].normal)
    /\ PlaneBuilt => Len(value[1].normal) = 3
    /\ (PlaneAsked /\ op = "Plane" /\ GivenNormal = <<0, 0, 0>>)
          => result = "invalid_argument"

\* a*x + b*y + c*z = k for the point and the coefficients of the plane.
OnPlane(p) ==
    Add(Add(Mul(p.coefficients[1], p.point[1]), Mul(p.coefficients[2], p.point[2])),
        Mul(p.coefficients[3], p.point[3])) = p.coefficients[4]

\* C27: for every Plane constructed, by either constructor and for every
\* scalar type, the point (x, y, z) and the coefficients (a, b, c, k) it
\* stores satisfy a*x + b*y + c*z = k.
C27_PointSatisfiesEquation ==
    PlaneBuilt => OnPlane(value[1])

\* C27 for an exact scalar type, and for the constructor from a normal and a
\* point with any type.
C27_ExactPointSatisfiesEquation ==
    (PlaneBuilt /\ (TheCall.T = "exact" \/ op = "PlaneFromNormalAndPoint"))
        => OnPlane(value[1])

\* ------------------------------------------- termination and index safety
\* The elements matrix[r][c] iteration i of the loop of rref reads or writes:
\* the pivot, column i of every row (findNextPivot and the loop over the other
\* rows), and through the row operations the whole of the rows named.
Accessed(m, k) ==
    {<<k, k>>} \cup {<<r, k>> : r \in 0 .. m.nrows - 1}
               \cup {<<r, c>> : r \in {k} \cup 0 .. m.nrows - 1, c \in 0 .. m.ncols - 1}

\* Matrix::operator[] throws for row >= nrows, Slice::operator[] for idx >= size.
ThrowsOutOfRange(m, k) ==
    \E a \in Accessed(m, k) : a[1] >= m.nrows \/ a[2] >= m.ncols

\* What a solver or rref hands to its caller: a Result holding the unit or an
\* error code.
ResultValues ==
    {"OK", "FREE_COLUMNS_RREF", "UNDERDETERMINED_SYSTEM", "NO_SOLUTIONS",
     "INFINITE_SOLUTIONS", "UNKNOWN_ERROR"}

\* The solvers and the reducer together.
NextOnce ==
    \/ Next
    \/ CallRref
    \/ CallRrefZp
    \/ ReturnRref

SpecOnce == Init /\ [][NextOnce]_vars

C22_BoundedAndInRange ==
    /\ Len(processed) <= smallerDim(matrix)
    /\ i <= smallerDim(matrix)
    /\ (pc = "rref" /\ i < smallerDim(matrix)) => ~ThrowsOutOfRange(matrix, i)
    /\ (pc = "returned" /\ op # "gauss_jordan") => result \in ResultValues
    /\ pc = "returned" => result # "out_of_range"
    /\ (pc = "rref" /\ ~(i < smallerDim(matrix))) => ENABLED NextOnce

\* C22, termination: each step of the loop takes the next pivot index, which
\* C22_BoundedAndInRange bounds by min(nrows, ncols), and at the bound the
\* function returns.
C22_LoopAdvances == [][(pc = "rref" /\ pc' = "rref") => i' = i + 1]_vars

\* gauss_jordan(matrix) on a system rref reduces successfully ends in
\* retval.error() of a success.
C22_RaisesAfterSuccess ==
    /\ pc = "returned"
    /\ op = "gauss_jordan"
    /\ ~freeElements
    /\ result = "raises"

\* ------------------------------- the two constructions of linear independence
\* C23: for every list of at least two vectors of one length,
\* linearIndependenceOfSystem (the vectors as rows, with a last column of
\* zeros) returns what linear_independence_of_system (the vectors as columns)
\* returns.
C23_RowsAndColumnsAgree ==
    (Returned("linearIndependenceOfSystem")
        /\ Len(TheCall.args) >= 2 /\ OneLength(TheCall.args))
        => LET x == linear_independence_of_system(VectorsOf(TheCall.args))
           IN  /\ (result = "OK") = x.ok
               /\ result = "OK" => value = <<x.val>>
               /\ result # "OK" => result = x.error

\* C23 where it holds: more vectors than their length, or a first vector
\* that leads the reduction (no column of the matrix of rows is zero from the
\* diagonal down unless the vectors are dependent).
C23_AgreeOnTooManyVectors ==
    (Returned("linearIndependenceOfSystem")
        /\ Len(TheCall.args) >= 2 /\ OneLength(TheCall.args)
        /\ Len(TheCall.args) > Len(TheCall.args[1]))
        => (result = "OK" /\ value = <<FALSE>>
            /\ linear_independence_of_system(VectorsOf(TheCall.args)).val = FALSE)

\* The rows variant never calls dependent vectors independent.
C23_RowsVariantIsOneSided ==
    (Returned("linearIndependenceOfSystem")
        /\ Len(TheCall.args) >= 2 /\ OneLength(TheCall.args)
        /\ result = "OK" /\ value = <<TRUE>>)
        => Independent(TheCall.args, Len(TheCall.args[1]))

\* [0,1,0] and [0,0,1]: independent, and the rows variant says they are not.
C23_IndependentCalledDependent ==
    /\ Returned("linearIndependenceOfSystem")
    /\ TheCall.args = <<<<0, 1, 0>>, <<0, 0, 1>>>>
    /\ result = "OK"
    /\ value = <<FALSE>>
    /\ linear_independence_of_system(VectorsOf(TheCall.args)).val = TRUE

\* ------------------------------------------------- the threshold of rref
\* The grid g of integers as a grid of halves: g[r][c] / 2.
Halves(g) == [r \in DOMAIN g |-> [c \in DOMAIN g[r] |-> Rat(g[r][c], 2)]]

\* The caller's matrix holds halves, some of them below the thresholds.
InitHalves ==
    /\ \E s \in Shapes : input \in [1 .. s[1] -> [1 .. s[2] -> EntriesOf(s)]]
    /\ matrix = Matrix(Halves(input))
    /\ op = "none"
    /\ pc = "ready"
    /\ result = "none"
    /\ calls = <<>>
    /\ value = <<>>
    /\ zeroPrecision = Cast(0)
    /\ i = 0
    /\ freeElements = FALSE
    /\ processed = <<>>
    /\ flagged = {}
    /\ rounded = FALSE
    /\ pass = "first"
    /\ first = <<>>

\* rref(matrix, zeroPrecision) on its own.
NextRrefZp ==
    \/ CallRrefZp
    \/ RrefPivotZp
    \/ ReturnRref

SpecRrefZp == InitHalves /\ [][NextRrefZp]_vars

\* x is not zero and below the threshold t in absolute value.
Small(x, t) == x # Cast(0) /\ Less(Neg(t), x) /\ Less(x, t)

\* The rows of storage (blocks of ncols elements) that hold a Small element.
SmallBlocks(m, t) ==
    {b \in 0 .. m.nrows - 1 :
        \E k \in b * m.ncols .. b * m.ncols + m.ncols - 1 : Small(m.storage[k], t)}

\* C24: when rref runs with a threshold t > 0, after every pivot iteration
\* (its elimination steps and its normalization) and in the matrix rref
\* returns, no element x of the matrix has 0 < |x| < t.
C24_NoElementBelowThreshold ==
    (op = "rrefZp" /\ (processed # <<>> \/ pc = "returned"))
        => SmallBlocks(matrix, zeroPrecision) = {}

\* C24 for the rows a pivot iteration writes to: a row of which the iteration
\* changed an element holds no element below the threshold after it.
C24_WrittenRowsAreRounded ==
    [][(op = "rrefZp" /\ pc = "rref" /\ matrix' # matrix)
        => \A k \in DOMAIN matrix.storage :
              matrix'.storage[k] # matrix.storage[k]
                 => (k \div matrix.ncols) \notin SmallBlocks(matrix', zeroPrecision)]_vars

\* C24 for a matrix of integers, which holds no element below the thresholds
\* when rref is called: none is left by any pivot iteration.
C24_NoSmallElementArises ==
    op = "rrefZp" => SmallBlocks(matrix, zeroPrecision) = {}

\* rref has returned and left an element below the threshold.
C24_SmallElementReturned ==
    /\ op = "rrefZp"
    /\ pc = "returned"
    /\ zeroPrecision = <<3, 4>>
    /\ SmallBlocks(matrix, zeroPrecision) # {}

\* ------------------------------------------------- the Vector as an object
\* A Vector object is [length, storage, magnitude]: storage is the sequence of
\* its elements, magnitude the double the non-const mod() keeps, -1.0 until
\* it is computed.
MaxVectorCalls == 3
VectorElements == {<<1>>, <<0, 0>>, <<1, 2>>, <<3, 4>>, <<-1, 2, 2>>}
Scalars == {-2, 0, 2}

\* Vector(const std::vector<T>& elems)
Vector(elems) ==
    [length |-> Len(elems), storage |-> elems, magnitude |-> Cast(-1)]

\* double mod(): [returned, vector], the value returned and the object after
\* the call.
modCaching(v) ==
    IF Less(v.magnitude, Cast(0))
    THEN [returned |-> mod(v.storage),
          vector |-> [v EXCEPT !.magnitude = mod(v.storage)]]
    ELSE [returned |-> v.magnitude, vector |-> v]

\* Vector<T>& scale(const T& scalar)
scale(v, scalar) ==
    [v EXCEPT !.storage = [k \in DOMAIN v.storage |-> Mul(v.storage[k], scalar)]]

\* v[index] = x through T& operator[]
assign(v, index, x) ==
    IF index >= v.length THEN out_of_range
    ELSE [v EXCEPT !.storage[index + 1] = x]

\* operator*(scalar, Vector) and operator*(Vector, scalar): the same body.
ScalarTimesVector(scalar, rhs) ==
    [length |-> rhs.length,
     storage |-> [k \in DOMAIN rhs.storage |-> Mul(scalar, rhs.storage[k])],
     magnitude |-> Mul(scalar, rhs.magnitude)]

\* A call on the Vector the caller holds: c is logged, v is the object after.
VectorCall(c, v) ==
    /\ pc = "built"
    /\ op \in {"Vector", "mod", "mod const", "scale", "operator[]", "operator*"}
    /\ Len(calls) < MaxVectorCalls
    /\ calls' = Append(calls, c)
    /\ op' = c.op
    /\ value' = <<v>>
    /\ UNCHANGED <<input, matrix, pc, result, reducer>>

ConstructVector ==
    /\ pc = "ready"
    /\ \E elems \in VectorElements :
          /\ value' = <<Vector(VectorOf(elems))>>
          /\ calls' = <<>>
          /\ op' = "Vector"
          /\ pc' = "built"
          /\ result' = "OK"
    /\ UNCHANGED <<input, matrix, reducer>>

CallMod ==
    LET m == modCaching(value[1])
    IN  VectorCall([op |-> "mod", returned |-> m.returned], m.vector)

CallModConst ==
    VectorCall([op |-> "mod const", returned |-> mod(value[1].storage)], value[1])

CallScale ==
    \E scalar \in Scalars :
        VectorCall([op |-> "scale", returned |-> Cast(scalar)],
                   scale(value[1], Cast(scalar)))

CallAssign ==
    \E index \in 0 .. 1, x \in {5} :
        /\ pc = "built"
        /\ ~Raised(assign(value[1], index, Cast(x)))
        /\ VectorCall([op |-> "operator[]", returned |-> Cast(x)],
                      assign(value[1], index, Cast(x)))

\* The caller goes on with the product scalar * v (or v * scalar).
CallScalarTimesVector ==
    \E scalar \in Scalars :
        VectorCall([op |-> "operator*", returned |-> Cast(scalar)],
                   ScalarTimesVector(Cast(scalar), value[1]))

NextVector ==
    \/ ConstructVector
    \/ CallMod
    \/ CallModConst
    \/ CallScale
    \/ CallAssign
    \/ CallScalarTimesVector

SpecVector == Idle /\ [][NextVector]_vars

\* The caller holds a Vector object.
HoldsVector ==
    pc = "built" /\ op \in {"Vector", "mod", "mod const", "scale", "operator[]", "operator*"}

\* C25: after any sequence of element writes, scale and mod calls, and on any
\* product of a scalar and a vector, mod() returns the magnitude of the
\* elements the vector holds now, the same value as the const mod().
C25_ModIsOfCurrentElements ==
    HoldsVector =>
        /\ modCaching(value[1]).returned = mod(value[1].storage)
        /\ op = "mod" => LastCall.returned = mod(value[1].storage)

\* C25 for the const mod(), and for the non-const mod() of a vector on which
\* it was not called before and which is not a product.
C25_FirstModIsOfCurrentElements ==
    HoldsVector =>
        /\ op = "mod const" => LastCall.returned = mod(value[1].storage)
        /\ (\A k \in DOMAIN calls : calls[k].op \notin {"mod", "operator*"})
              => modCaching(value[1]).returned = mod(value[1].storage)

\* [3,4]: mod() gives 25, scale(2) makes it [6,8], mod() gives 25 again.
C25_StaleAfterScale ==
    /\ HoldsVector
    /\ Len(calls) = 3
    /\ calls[1].op = "mod" /\ calls[2].op = "scale" /\ calls[3].op = "mod"
    /\ value[1].storage = VectorOf(<<6, 8>>)
    /\ calls[3].returned = Cast(25)

\* ------------------------------------------- the comparisons of Fractions
\* The numerators and denominators of the Fractions compared.
CompareRange == 3

\* operator double() of a Fraction
FractionToDouble(f) == Rat(f.num, f.den)

\* operator==(const Fraction&, const Fraction&), operator!=
FractionEq(lhs, rhs) == lhs.num = rhs.num /\ lhs.den = rhs.den
FractionNe(lhs, rhs) == lhs.num # rhs.num \/ lhs.den # rhs.den

\* operator>(const Fraction&, const T&), operator<, operator>=, operator<=
\* with T = Fraction: both sides are converted to double.
FractionGt(lhs, rhs) == Less(FractionToDouble(rhs), FractionToDouble(lhs))
FractionLt(lhs, rhs) == Less(FractionToDouble(lhs), FractionToDouble(rhs))
FractionGe(lhs, rhs) == Less(FractionToDouble(rhs), FractionToDouble(lhs))
FractionLe(lhs, rhs) == Less(FractionToDouble(lhs), FractionToDouble(rhs))

\* A caller builds two Fractions and compares them with every operator.
CompareFractions ==
    /\ pc = "ready"
    /\ \E n1, n2 \in -CompareRange .. CompareRange,
          d1, d2 \in (-CompareRange .. CompareRange) \ {0} :
          LET a == Fraction(n1, d1)
              b == Fraction(n2, d2)
          IN  /\ calls' = <<[op |-> "compare", args |-> <<<<n1, d1>>, <<n2, d2>>>>,
                             lhs |-> a, rhs |-> b]>>
              /\ value' = <<[eq |-> FractionEq(a, b), ne |-> FractionNe(a, b),
                             gt |-> FractionGt(a, b), lt |-> FractionLt(a, b),
                             ge |-> FractionGe(a, b), le |-> FractionLe(a, b)]>>
    /\ op' = "compare"
    /\ result' = "OK"
    /\ pc' = "returned"
    /\ UNCHANGED <<input, matrix, reducer>>

NextCompare == CompareFractions

SpecCompare == Idle /\ [][NextCompare]_vars

\* The rationals the two Fractions compared were built from.
Left == Rat(TheCall.args[1][1], TheCall.args[1][2])
Right == Rat(TheCall.args[2][1], TheCall.args[2][2])

\* C26: the comparison operators on Fractions a and b agree with the order of
\* the rationals they denote: == iff the same rational, != iff not, < and >
\* iff strictly smaller / larger, <= iff smaller or equal, >= iff larger or
\* equal.
C26_ComparisonsAgreeWithOrder ==
    Returned("compare") =>
        /\ value[1].eq = (Left = Right)
        /\ value[1].ne = (Left # Right)
        /\ value[1].lt = Less(Left, Right)
        /\ value[1].gt = Less(Right, Left)
        /\ value[1].le = ~Less(Right, Left)
        /\ value[1].ge = ~Less(Left, Right)

\* C26 for < and >, for == and != being each other's negation, and for every
\* operator on two Fractions that denote different rationals.
C26_StrictComparisonsAgree ==
    Returned("compare") =>
        /\ value[1].lt = Less(Left, Right)
        /\ value[1].gt = Less(Right, Left)
        /\ value[1].ne = ~value[1].eq
        /\ value[1].eq => Left = Right
        /\ Left # Right =>
              /\ ~value[1].eq
              /\ value[1].le = Less(Left, Right)
              /\ value[1].ge = Less(Right, Left)

\* 1/2 >= 1/2 and 1/2 <= 1/2 are false.
C26_NotReflexive ==
    /\ Returned("compare")
    /\ TheCall.args = <<<<1, 2>>, <<1, 2>>>>
    /\ ~value[1].ge
    /\ ~value[1].le
    /\ value[1].eq

\* 1/2 == -1/-2 is false: the signs are stored as given.
C26_SameRationalNotEqual ==
    /\ Returned("compare")
    /\ TheCall.args = <<<<1, 2>>, <<-1, -2>>>>
    /\ ~value[1].eq

\* ------------------------------------------ the frame of the row operations
\* C28: with valid row indices linearCombRows(r1, a, r2, b) replaces every
\* element j of row r1 with a*old(r1)[j] + b*old(r2)[j] ((a+b)*old(r1)[j] when
\* r1 = r2) and leaves every other row, row r2 included when r2 # r1, and the
\* dimensions as they were; scaleRow(r, f) multiplies the elements of row r
\* by f and changes nothing else.
C28_RowOperationsFrame ==
    (Len(calls) >= 2 /\ LastCall.op \in {"linearCombRows", "scaleRow"}
        /\ ValidRows(LastCall))
        => LET c == LastCall
               old == View(c.before)
               new == View(matrix)
               cols == 0 .. matrix.ncols - 1
               others(r) == (0 .. matrix.nrows - 1) \ {r}
           IN  /\ result = "OK"
               /\ matrix.nrows = c.before.nrows
               /\ matrix.ncols = c.before.ncols
               /\ c.op = "linearCombRows" =>
                     LET r1 == c.args[1]
                         a == c.args[2]
                         r2 == c.args[3]
                         b == c.args[4]
                     IN  /\ \A j \in cols :
                               new[r1][j] = Add(Mul(a, old[r1][j]), Mul(b, old[r2][j]))
                         /\ r1 = r2 =>
                               \A j \in cols : new[r1][j] = Mul(Add(a, b), old[r1][j])
                         /\ \A r \in others(r1) : new[r] = old[r]
               /\ c.op = "scaleRow" =>
                     /\ \A j \in cols :
                           new[c.args[1]][j] = Mul(old[c.args[1]][j], c.args[2])
                     /\ \A r \in others(c.args[1]) : new[r] = old[r]

\* Row 0 becomes 2*row 0 - row 1 after the rows were exchanged.
C28_Witness ==
    /\ Len(calls) = 3
    /\ calls[2].op = "exchangeRows" /\ calls[2].args = <<0, 1>>
    /\ calls[3].op = "linearCombRows"
    /\ calls[3].args = <<0, Cast(2), 1, Cast(-1)>>
    /\ result = "OK"
    /\ View(matrix)[0] # View(calls[3].before)[0]
    /\ View(matrix)[1] = View(calls[3].before)[1]
    /\ View(matrix)[1] # View(matrix)[0]

C28_WitnessScaleRow ==
    /\ Len(calls) = 2
    /\ calls[2].op = "scaleRow"
    /\ calls[2].args = <<1, Cast(2)>>
    /\ result = "OK"
    /\ View(matrix)[1] # View(calls[2].before)[1]
    /\ View(matrix)[0] = View(calls[2].before)[0]

\* ------------------------------------------------ the row space under rref
\* The product of the denominators of the elements of row r of m.
RECURSIVE Denominators(_, _, _)
Denominators(m, r, c) ==
    IF c >= m.ncols THEN 1 ELSE At(m, r, c)[2] * Denominators(m, r, c + 1)

\* The rows of m as rows of integers: each row multiplied by the product of
\* its denominators, which changes neither the row space nor the solutions.
IntegerRows(m) ==
    [r \in 1 .. m.nrows |->
        [c \in 1 .. m.ncols |->
            Mul(At(m, r - 1, c - 1), Cast(Denominators(m, r - 1, 0)))[1]]]

\* The integer grids g and h (of one width) have the same row space: stacking
\* them adds nothing to the rank of either.  Systems with the same row space
\* have the same solutions.
SameRowSpace(g, h) ==
    LET C == 1 .. Len(g[1])
    IN  /\ Rank(g, C) = Rank(h, C)
        /\ Rank(g \o h, C) = Rank(g, C)

\* C29: over exact scalars and without threshold, the matrix rref is working
\* on or has returned, successfully or not, has the row space (and so the
\* solutions) of the matrix it was given, and when gauss_jordan reports
\* NoSolutions the system given has none.
C29_RowSpacePreserved ==
    (op \in NoThreshold /\ pass = "first")
        => /\ SameRowSpace(input, IntegerRows(matrix))
           /\ (pc = "returned" /\ result = "NO_SOLUTIONS") => ~Consistent(input)

\* rref has changed the matrix and failed.
C29_Witness ==
    /\ op = "rref"
    /\ pc = "returned"
    /\ result = "FREE_COLUMNS_RREF"
    /\ input = <<<<1, 1, 0>>, <<1, 1, 1>>>>
    /\ IntegerRows(matrix) # input
    /\ SameRowSpace(input, IntegerRows(matrix))

\* gaussJordan has found a contradiction row.
C29_WitnessNoSolutions ==
    /\ op = "gaussJordan"
    /\ pc = "returned"
    /\ result = "NO_SOLUTIONS"
    /\ IntegerRows(matrix) # input
    /\ ~Consistent(input)

\* ------------------------------------------------ the row views of a Matrix
\* The row views of m are a permutation of the blocks of its storage: every
\* block of ncols elements is the view of exactly one row.
RowViewsPermuteBlocks(m) ==
    /\ DOMAIN m.rows = 0 .. m.nrows - 1
    /\ \A b \in 0 .. m.nrows - 1 :
          Cardinality({r \in 0 .. m.nrows - 1 : m.rows[r] = b * m.ncols}) = 1
    /\ \A r1, r2 \in 0 .. m.nrows - 1 :
          r1 # r2 => Block(m, r1) \cap Block(m, r2) = {}

\* C30: after construction and after any sequence of exchangeRows,
\* linearCombRows and scaleRow calls the row views of a Matrix are a
\* permutation of the nrows disjoint blocks of ncols elements of its storage:
\* no two views alias a block and every block is viewed by one row.
C30_RowViewsArePermutation ==
    matrix.ncols >= 1 => RowViewsPermuteBlocks(matrix)

\* C30 for the sequences of calls that pass row indices below nrows only.
C30_ValidCallsKeepPermutation ==
    (matrix.ncols >= 1
        /\ \A k \in DOMAIN calls :
              calls[k].op \in RowOperations => ValidRows(calls[k]))
        => RowViewsPermuteBlocks(matrix)

\* exchangeRows(nrows, 0) has returned and row 0 views no block of the storage.
C30_RowViewLost ==
    /\ Len(calls) >= 2
    /\ LastCall.op = "exchangeRows"
    /\ result = "OK"
    /\ matrix.ncols >= 1
    /\ matrix.rows[0] = Wild

====
